---- MODULE Spec2Model ----
(***************************************************************************)
(* A model of the Layer component (src/src/layer.rs) and of DenseParams    *)
(* (src/src/dense_params.rs).                                              *)
(*                                                                         *)
(* f64 values are modelled by integers with exact arithmetic; Vec<f64> is  *)
(* a sequence and Vec<Vec<f64>> a sequence of sequences.  Rust indexes     *)
(* from 0 and the model from 1.  A panic (an out-of-bounds index, unwrap   *)
(* on None) ends the program: the model records it in `fault`, keeps the   *)
(* assignments made before the panic, and enables nothing afterwards.      *)
(* The dense operations are modelled as called on a dense layer and the    *)
(* convolutional ones as called on a convolutional layer.                  *)
(***************************************************************************)
EXTENDS Integers, Sequences, FiniteSets, TLC

VARIABLES
    layer_type,     \* Layer.layer_type: "Dense" or "Convolutional"
    activation,     \* Layer.activation: the kind of nonlinearity
    nodes_in,       \* DenseParams.nodes_in
    nodes_out,      \* DenseParams.nodes_out
    weights,        \* DenseParams.weights (rows: input node, columns: output node)
    biases,         \* DenseParams.biases
    inputs,         \* DenseParams.inputs  (cache)
    outputs,        \* DenseParams.outputs (cache)
    conv,           \* Layer.conv_params: None or the ConvParams record
    call,           \* the most recent call: its name, arguments and return value
    fwd,            \* history: None, or argument and return value of the most
                    \* recent dense_forward since construction or the last reset
    fault,          \* TRUE once a call has panicked
    steps           \* number of calls made so far

vars == <<layer_type, activation, nodes_in, nodes_out, weights, biases,
          inputs, outputs, conv, call, fwd, fault, steps>>

denseVars == <<nodes_in, nodes_out, weights, biases, inputs, outputs>>

None == [none |-> TRUE]

(***************************************************************************)
(* Bounds of the model.                                                    *)
(***************************************************************************)
MaxNodes == 2       \* nodes_in, nodes_out range over 1..MaxNodes
MaxSteps == 3       \* calls made on a dense layer
MaxKernel == 2      \* kernel ranges over 1..MaxKernel
MaxDim == 3         \* rows and columns of a convolutional input range over 1..MaxDim
MaxConvSteps == 2   \* calls made on a convolutional layer

(***************************************************************************)
(* Activation (external to src/: function and derivative of the output).   *)
(***************************************************************************)
ActivationKinds == {"Linear", "ReLU"}

ActivationFunction(a, x) ==
    IF a = "ReLU" THEN (IF x > 0 THEN x ELSE 0) ELSE x

ActivationDerivative(a, y) ==
    IF a = "ReLU" THEN (IF y > 0 THEN 1 ELSE 0) ELSE 1

(***************************************************************************)
(* Sample values the calls are made with.                                  *)
(***************************************************************************)
PatVal(s, n) == ((s + n * (s + 1)) % 5) - 2

PatVec(len, s) == [j \in 1..len |-> PatVal(s, j)]

PatMat(rows, cols, s) ==
    [j \in 1..rows |-> [i \in 1..cols |-> PatVal(s, 2 * j + i)]]

ZeroVec(len) == [j \in 1..len |-> 0]

\* thread_rng().gen_range(-1.0..1.0): the integers of [-1, 1) are -1 and 0.
InitSeeds == {0, 1}
RandVal(s, n) == 0 - ((s + n) % 2)

InputSeeds == {1, 2, 3}
InputVecs(n) ==
    {PatVec(n, s) : s \in InputSeeds}
        \cup {PatVec(len, 1) : len \in (0..(MaxNodes + 1)) \ {n}}

ErrorVecs(n) == {ZeroVec(n)} \cup {PatVec(n, s) : s \in {2, 4}}

LearningRates == {1, 2}

\* set_params takes any matrix and any vector: the declared shape, and shapes
\* that differ from it in one dimension.
ParamShapes(r, c) ==
    {<<r, c, c>>}
        \cup {<<r2, c, c>> : r2 \in (1..MaxNodes) \ {r}}
        \cup {<<r, c2, c>> : c2 \in (1..MaxNodes) \ {c}}
        \cup {<<r, c, b2>> : b2 \in (1..MaxNodes) \ {c}}

ParamSeeds == {2, 3}

(***************************************************************************)
(* DenseParams (src/src/dense_params.rs).                                  *)
(***************************************************************************)
\* DenseParams::new before init: zero-filled weights and biases, empty caches.
DenseParamsNew(nin, nout) ==
    [nodes_in |-> nin, nodes_out |-> nout, outputs |-> <<>>, inputs |-> <<>>,
     weights |-> [j \in 1..nin |-> [i \in 1..nout |-> 0]],
     biases |-> [i \in 1..nout |-> 0]]

\* DenseParams::init: every weight and bias overwritten by a random draw
\* (s selects the outcome of the draws).
DenseParamsInit(p, s) ==
    [p EXCEPT
        !.weights = [j \in 1..Len(p.weights) |->
                        [i \in 1..Len(p.weights[j]) |-> RandVal(s, j + i)]],
        !.biases = [i \in 1..Len(p.biases) |-> RandVal(s, i)]]

(***************************************************************************)
(* Layer::dense_forward (src/src/layer.rs, 84-99).                         *)
(***************************************************************************)
\* The inner loop of lines 88-90 for output node i, from input node j on.
RECURSIVE AccumulateInputs(_, _, _, _, _, _)
AccumulateInputs(acc, x, W, i, j, n) ==
    IF j > n THEN acc
    ELSE AccumulateInputs(acc + x[j] * W[j][i], x, W, i, j + 1, n)

\* A faulty variant of WeightedInput: the accumulator starts from zero, not from the bias.
WeightedInputNoBias(W, B, x, i, n) == AccumulateInputs(0, x, W, i, 1, n)

\* weighted_inputs[i] after the loops of lines 86-91.
WeightedInput(W, B, x, i, n) == AccumulateInputs(B[i], x, W, i, 1, n)

\* An index of lines 89 or 95 is out of bounds.
DenseForwardPanics(x) ==
    \/ /\ nodes_out > 0
       /\ nodes_in > 0
       /\ \/ Len(x) < nodes_in
          \/ Len(weights) < nodes_in
          \/ Len(biases) < nodes_out
          \/ \E j \in 1..nodes_in : j <= Len(weights) /\ Len(weights[j]) < nodes_out
    \/ nodes_out > 0 /\ Len(biases) < nodes_out

\* The activation vector of lines 93-96.
DenseForwardResult(x) ==
    [i \in 1..nodes_out |->
        ActivationFunction(activation, WeightedInput(weights, biases, x, i, nodes_in))]

CallRecord(op, arg, lr, ret, w0, b0) ==
    [op |-> op, arg |-> arg, lr |-> lr, ret |-> ret, w0 |-> w0, b0 |-> b0]

DenseForward(x) ==
    /\ ~fault
    /\ layer_type = "Dense"
    /\ steps < MaxSteps
    /\ steps' = steps + 1
    /\ inputs' = x
    /\ IF DenseForwardPanics(x)
       THEN /\ fault' = TRUE
            /\ outputs' = outputs
            /\ fwd' = fwd
            /\ call' = CallRecord("dense_forward", x, 0, <<>>, weights, biases)
       ELSE /\ fault' = FALSE
            /\ outputs' = DenseForwardResult(x)
            /\ fwd' = <<x, DenseForwardResult(x)>>
            /\ call' = CallRecord("dense_forward", x, 0, DenseForwardResult(x),
                                  weights, biases)
    /\ UNCHANGED <<layer_type, activation, nodes_in, nodes_out, weights, biases, conv>>

(***************************************************************************)
(* Layer::reset and Layer::set_params (src/src/layer.rs, 242-250).         *)
(***************************************************************************)
\* A faulty variant of Reset: the outputs cache is not cleared.
ResetInputsOnly ==
    /\ ~fault
    /\ layer_type = "Dense"
    /\ steps < MaxSteps
    /\ steps' = steps + 1
    /\ inputs' = <<>>
    /\ fwd' = <<>>
    /\ call' = CallRecord("reset", <<>>, 0, <<>>, <<>>, <<>>)
    /\ UNCHANGED <<layer_type, activation, nodes_in, nodes_out, weights, biases,
                   outputs, conv, fault>>

Reset ==
    /\ ~fault
    /\ layer_type = "Dense"
    /\ steps < MaxSteps
    /\ steps' = steps + 1
    /\ inputs' = <<>>
    /\ outputs' = <<>>
    /\ fwd' = <<>>
    /\ call' = CallRecord("reset", <<>>, 0, <<>>, <<>>, <<>>)
    /\ UNCHANGED <<layer_type, activation, nodes_in, nodes_out, weights, biases,
                   conv, fault>>

SetParams(W, B) ==
    /\ ~fault
    /\ layer_type = "Dense"
    /\ steps < MaxSteps
    /\ steps' = steps + 1
    /\ weights' = W
    /\ biases' = B
    /\ call' = CallRecord("set_params", <<W, B>>, 0, <<>>, <<>>, <<>>)
    /\ UNCHANGED <<layer_type, activation, nodes_in, nodes_out, inputs, outputs,
                   conv, fwd, fault>>

(***************************************************************************)
(* Layer::dense_backward (src/src/layer.rs, 191-216).                      *)
(***************************************************************************)
\* Lines 192-196: the chain rule through the activation, on the cached output.
DenseDelta(errors) ==
    [i \in 1..Len(errors) |-> errors[i] * ActivationDerivative(activation, outputs[i])]

\* Line 194 reads outputs[i] for every index of errors.
DenseDeltaPanics(errors) == Len(errors) > Len(outputs)

\* Line 200 reads inputs[i] and delta_output[j] for the cell (i, j) of weights.
BadWeightCell(i, j, delta) == i > Len(inputs) \/ j > Len(delta)

\* The loops of lines 198-202 reach and update cell (i, j): no cell up to it,
\* in row-major order, panics.
WeightCellUpdated(i, j, delta) ==
    \A i2 \in 1..i : \A j2 \in 1..Len(weights[i2]) :
        (i2 < i \/ j2 <= j) => ~BadWeightCell(i2, j2, delta)

DenseWeightPanics(delta) ==
    \E i \in 1..Len(weights) : \E j \in 1..Len(weights[i]) : BadWeightCell(i, j, delta)

\* A faulty variant of UpdatedWeight: the input and the delta are added, not multiplied.
UpdatedWeightSum(w, lr, x, d) == w - lr * (x + d)

\* Line 200 for one cell.
UpdatedWeight(w, lr, x, d) == w - lr * (x * d)

\* The weights after the loops of lines 198-202.
DenseUpdatedWeights(delta, lr) ==
    [i \in 1..Len(weights) |->
        [j \in 1..Len(weights[i]) |->
            IF WeightCellUpdated(i, j, delta)
            THEN UpdatedWeight(weights[i][j], lr, inputs[i], delta[j])
            ELSE weights[i][j]]]

\* Line 205 reads delta_output[i] for every index of biases.
DenseBiasPanics(delta) == Len(biases) > Len(delta)

\* Line 205 for one bias.
UpdatedBias(b, lr, d) == b - lr * d

\* The biases after the loop of lines 204-206.
DenseUpdatedBiases(delta, lr) ==
    [i \in 1..Len(biases) |->
        IF i <= Len(delta) THEN UpdatedBias(biases[i], lr, delta[i]) ELSE biases[i]]

\* Line 211 writes next_delta[i], of length nodes_in, for every cell of weights.
DenseNextDeltaPanics ==
    \E i \in 1..Len(weights) : Len(weights[i]) > 0 /\ i > nodes_in

\* The inner loop of lines 210-212 for input node i, from output node j on,
\* over the row wrow of the weights as they are at that point.
RECURSIVE AccumulateDelta(_, _, _, _, _)
AccumulateDelta(acc, wrow, delta, xi, j) ==
    IF j > Len(wrow) THEN acc
    ELSE AccumulateDelta(acc + (wrow[j] * delta[j] * xi), wrow, delta, xi, j + 1)

\* A faulty variant of DenseNextDelta: the gradient is taken over the weights as they were
\* before the update.
DenseNextDeltaOldWeights(W, delta) ==
    [i \in 1..nodes_in |->
        IF i <= Len(weights)
        THEN AccumulateDelta(0, weights[i], delta, inputs[i], 1) ELSE 0]

\* next_delta after the loops of lines 208-213, W being the weights read there.
DenseNextDelta(W, delta) ==
    [i \in 1..nodes_in |->
        IF i <= Len(W) THEN AccumulateDelta(0, W[i], delta, inputs[i], 1) ELSE 0]

DenseBackward(errors, lr) ==
    /\ ~fault
    /\ layer_type = "Dense"
    /\ steps < MaxSteps
    /\ steps' = steps + 1
    /\ IF DenseDeltaPanics(errors)
       THEN /\ fault' = TRUE
            /\ UNCHANGED <<weights, biases>>
            /\ call' = CallRecord("dense_backward", errors, lr, <<>>, <<>>, <<>>)
       ELSE LET delta == DenseDelta(errors) IN
            /\ weights' = DenseUpdatedWeights(delta, lr)
            /\ IF DenseWeightPanics(delta)
               THEN /\ fault' = TRUE
                    /\ biases' = biases
                    /\ call' = CallRecord("dense_backward", errors, lr, <<>>, <<>>, <<>>)
               ELSE /\ biases' = DenseUpdatedBiases(delta, lr)
                    /\ IF DenseBiasPanics(delta) \/ DenseNextDeltaPanics
                       THEN /\ fault' = TRUE
                            /\ call' = CallRecord("dense_backward", errors, lr,
                                                  <<>>, <<>>, <<>>)
                       ELSE /\ fault' = FALSE
                            /\ call' = CallRecord("dense_backward", errors, lr,
                                                  DenseNextDelta(weights', delta),
                                                  <<>>, <<>>)
    /\ UNCHANGED <<layer_type, activation, nodes_in, nodes_out, inputs, outputs,
                   conv, fwd>>

(***************************************************************************)
(* A dense layer and the calls made on it.                                 *)
(***************************************************************************)
\* Layer::dense([nin, nout], a) (src/src/layer.rs, 23-33).
InitDense ==
    \E nin \in 1..MaxNodes, nout \in 1..MaxNodes, s \in InitSeeds, a \in ActivationKinds :
        LET p == DenseParamsInit(DenseParamsNew(nin, nout), s) IN
        /\ layer_type = "Dense"
        /\ activation = a
        /\ nodes_in = p.nodes_in
        /\ nodes_out = p.nodes_out
        /\ weights = p.weights
        /\ biases = p.biases
        /\ inputs = p.inputs
        /\ outputs = p.outputs
        /\ conv = None
        /\ call = CallRecord("dense", <<nin, nout>>, 0, <<>>, <<>>, <<>>)
        /\ fwd = <<>>
        /\ fault = FALSE
        /\ steps = 0

NextDense ==
    \/ \E x \in InputVecs(nodes_in) : DenseForward(x)
    \/ \E errors \in ErrorVecs(nodes_out), lr \in LearningRates : DenseBackward(errors, lr)
    \/ Reset
    \/ \E sh \in ParamShapes(nodes_in, nodes_out), s \in ParamSeeds :
            SetParams(PatMat(sh[1], sh[2], s), PatVec(sh[3], s))

SpecDense == InitDense /\ [][NextDense]_vars

(***************************************************************************)
(* Properties of the dense layer.                                          *)
(***************************************************************************)
\* The sum of the values of a function with a finite domain.
RECURSIVE SumFn(_)
SumFn(f) ==
    IF DOMAIN f = {} THEN 0
    ELSE LET k == CHOOSE m \in DOMAIN f : TRUE
         IN f[k] + SumFn([m \in (DOMAIN f) \ {k} |-> f[m]])

\* weights is nodes_in x nodes_out and biases has nodes_out entries.
ShapeOK ==
    /\ Len(weights) = nodes_in
    /\ \A j \in 1..Len(weights) : Len(weights[j]) = nodes_out
    /\ Len(biases) = nodes_out

\* C1: dense_forward(x) with len(x) = nodes_in on a layer holding nodes_in x nodes_out
\* weights W and biases B returns out with
\* out[i] = activation.function(B[i] + sum_j x[j] * W[j][i]), leaves W and B
\* unchanged, and caches x as inputs and out as outputs.
C1_DenseForward ==
    [][(call'.op = "dense_forward" /\ ShapeOK /\ Len(call'.arg) = nodes_in) =>
        LET x == call'.arg
            out == call'.ret
        IN /\ ~fault'
           /\ Len(out) = nodes_out
           /\ \A i \in 1..nodes_out :
                out[i] = ActivationFunction(activation,
                            biases[i] + SumFn([j \in 1..nodes_in |-> x[j] * weights[j][i]]))
           /\ weights' = weights
           /\ biases' = biases
           /\ inputs' = x
           /\ outputs' = out]_vars

\* C1 witness: a forward call has returned on 2 x 2 weights put there by set_params,
\* with an output that is not zero.
C1_Witness ==
    /\ call.op = "dense_forward"
    /\ ~fault
    /\ nodes_in = 2
    /\ nodes_out = 2
    /\ weights = PatMat(2, 2, 3)
    /\ Len(call.arg) = 2
    /\ outputs = call.ret
    /\ \E i \in 1..2 : call.ret[i] > 1

\* C2: dense_forward(x) followed by dense_backward(errors, lr), len(errors) =
\* nodes_out, with delta[i] = errors[i] * derivative(cached_output[i]): every weight
\* becomes W[j][i] - lr * x[j] * delta[i], every bias B[i] - lr * delta[i], and the
\* returned vector has length nodes_in with
\* next_delta[j] = sum_i W'[j][i] * delta[i] * x[j], W' being the updated weights.
C2_DenseBackward ==
    [][(/\ call.op = "dense_forward"
        /\ ~fault
        /\ ShapeOK
        /\ Len(call.arg) = nodes_in
        /\ call'.op = "dense_backward"
        /\ Len(call'.arg) = nodes_out) =>
        LET x == call.arg
            lr == call'.lr
            delta == [i \in 1..nodes_out |->
                        call'.arg[i] * ActivationDerivative(activation, outputs[i])]
        IN /\ ~fault'
           /\ Len(weights') = nodes_in
           /\ \A j \in 1..nodes_in :
                /\ Len(weights'[j]) = nodes_out
                /\ \A i \in 1..nodes_out :
                     weights'[j][i] = weights[j][i] - lr * x[j] * delta[i]
           /\ Len(biases') = nodes_out
           /\ \A i \in 1..nodes_out : biases'[i] = biases[i] - lr * delta[i]
           /\ Len(call'.ret) = nodes_in
           /\ \A j \in 1..nodes_in :
                call'.ret[j] =
                    SumFn([i \in 1..nodes_out |-> weights'[j][i] * delta[i] * x[j]])]_vars

\* C2 witness: a backward call has returned on a 2 x 2 layer after a forward call,
\* with non-zero errors, a learning rate of 2 and a non-zero upstream gradient.
C2_Witness ==
    /\ call.op = "dense_backward"
    /\ ~fault
    /\ nodes_in = 2
    /\ nodes_out = 2
    /\ ShapeOK
    /\ fwd # <<>>
    /\ Len(fwd[1]) = 2
    /\ call.lr = 2
    /\ call.arg # ZeroVec(2)
    /\ \E j \in 1..2 : call.ret[j] # 0

\* C3: dense_forward(x), len(x) = nodes_in, followed by dense_backward of the
\* all-zero error vector leaves every weight and bias as it was before the two
\* calls, and the returned next_delta is all zero.
C3_ZeroErrors ==
    [][(/\ call.op = "dense_forward"
        /\ ~fault
        /\ Len(call.arg) = nodes_in
        /\ call'.op = "dense_backward"
        /\ call'.arg = ZeroVec(nodes_out)) =>
        /\ weights' = call.w0
        /\ biases' = call.b0
        /\ ShapeOK => ~fault'
        /\ ~fault' => call'.ret = ZeroVec(nodes_in)]_vars

\* C3 witness: a backward call with zero errors has returned after a forward call
\* whose input and output were not zero.
C3_Witness ==
    /\ call.op = "dense_backward"
    /\ ~fault
    /\ call.arg = ZeroVec(nodes_out)
    /\ call.ret = ZeroVec(nodes_in)
    /\ fwd # <<>>
    /\ \E j \in 1..Len(inputs) : inputs[j] # 0
    /\ \E i \in 1..Len(outputs) : outputs[i] > 0
    /\ nodes_in = 2

\* C4 (as claimed): in every reachable state weights has nodes_in rows of nodes_out
\* entries and biases has nodes_out entries.
C4_DimensionsFixed == ShapeOK

\* C5 (as claimed): dense_forward with an input whose length is not nodes_in ends
\* in a fault and returns nothing.
C5_WrongLengthFaults ==
    (call.op = "dense_forward" /\ Len(call.arg) # nodes_in) => fault

\* The caches are both empty when no dense_forward has returned since construction
\* or the last reset, and else hold its argument and its return value.
CachesOk ==
    IF fwd = <<>>
    THEN inputs = <<>> /\ outputs = <<>>
    ELSE inputs = fwd[1] /\ outputs = fwd[2] /\ ~(inputs = <<>> /\ outputs = <<>>)

\* C9: across dense_forward, dense_backward, set_params and reset calls the caches
\* are both empty exactly when no dense_forward has happened since construction or
\* the last reset, and else equal the argument and return value of the most recent
\* dense_forward; dense_backward and set_params never modify the caches; reset
\* modifies nothing but the caches.
C9_Caches ==
    /\ CachesOk
    /\ [][/\ ~fault' => CachesOk'
          /\ (call'.op = "dense_forward" /\ ~fault') =>
                (inputs' = call'.arg /\ outputs' = call'.ret)
          /\ call'.op \in {"dense_backward", "set_params"} =>
                UNCHANGED <<inputs, outputs>>
          /\ call'.op = "reset" =>
                (/\ UNCHANGED <<weights, biases, nodes_in, nodes_out>>
                 /\ inputs' = <<>>
                 /\ outputs' = <<>>)]_vars

\* C9 witness: a reset, made as the third call, has emptied the caches of a layer
\* whose weights a backward or set_params call had changed since construction.
C9_Witness ==
    /\ call.op = "reset"
    /\ steps = 3
    /\ inputs = <<>>
    /\ outputs = <<>>
    /\ weights # DenseParamsInit(DenseParamsNew(nodes_in, nodes_out), 0).weights
    /\ weights # DenseParamsInit(DenseParamsNew(nodes_in, nodes_out), 1).weights

(***************************************************************************)
(* ConvParams (external to src/: modelled from its use in layer.rs and     *)
(* from the specification).                                                *)
(***************************************************************************)
PaddingTypes == {"Valid", "Same"}

Strides == {1, 2}

PatGrid(rows, cols, s) ==
    [j \in 1..rows |-> [k \in 1..cols |-> PatVal(s, 3 * j + k)]]

Rows(m) == Len(m)

Cols(m) == IF Len(m) = 0 THEN 0 ELSE Len(m[1])

\* ConvParams::new(kernel, padding_type, stride): a random kernel and bias, empty
\* caches (s selects the outcome of the draws).
ConvParamsNew(kernel, padding_type, stride, s) ==
    [kernel |-> kernel, padding_type |-> padding_type, stride |-> stride,
     weights |-> [r \in 1..kernel |-> [c \in 1..kernel |-> RandVal(s, r + 2 * c)]],
     bias |-> RandVal(s, 0),
     inputs |-> <<>>, data |-> <<>>, outputs |-> <<>>]

\* ConvParams::add_padding: the working buffer.  Valid: left as it is (the caller
\* has copied the raw input into it).  Same: the raw input with kernel - 1 zero
\* rows and columns added around it, so that at stride 1 the output has the
\* input's shape.
AddPadding(p) ==
    IF p.padding_type = "Valid" THEN p.data
    ELSE LET before == (p.kernel - 1) \div 2
             h == Rows(p.inputs)
             w == Cols(p.inputs)
         IN [j \in 1..(h + p.kernel - 1) |->
                [k \in 1..(w + p.kernel - 1) |->
                    IF /\ j > before
                       /\ j <= before + h
                       /\ k > before
                       /\ k <= before + w
                    THEN p.inputs[j - before][k - before]
                    ELSE 0]]

\* ConvParams::get_output_dims: [width, height], the number of valid kernel
\* placements over the working buffer in each dimension.
GetOutputDims(p) ==
    <<((Cols(p.data) - p.kernel) \div p.stride) + 1,
      ((Rows(p.data) - p.kernel) \div p.stride) + 1>>

\* get_output_dims cannot be computed: the kernel is larger than the buffer.
GetOutputDimsPanics(p) == Cols(p.data) < p.kernel \/ Rows(p.data) < p.kernel

(***************************************************************************)
(* Layer::conv_forward (src/src/layer.rs, 46-82).  Rows j, columns k and   *)
(* kernel offsets are counted from 0 as in the source.                     *)
(***************************************************************************)
\* Lines 57-64: the loops reach cell (j, k) (no break before it).
ConvCellReached(j, k, kernel, img) ==
    j + kernel <= Rows(img) /\ k + kernel <= Cols(img)

\* Lines 67 and 123: a read of img at placement (j, k) is out of bounds.
ConvCellPanics(j, k, kernel, stride, img) ==
    \/ j * stride + kernel > Rows(img)
    \/ k * stride + kernel > Cols(img)

\* A faulty variant of ConvAccumulate: the bias is not added per kernel element.
RECURSIVE ConvAccumulateNoBias(_, _, _, _, _, _, _, _)
ConvAccumulateNoBias(acc, img, W, bias, j, k, stride, n) ==
    LET kernel == Len(W)
        kern_row == n \div kernel
        kern_col == n % kernel
    IN IF n >= kernel * kernel THEN acc + bias
       ELSE ConvAccumulateNoBias(
                acc + (img[j * stride + kern_row + 1][k * stride + kern_col + 1]
                        * W[kern_row + 1][kern_col + 1]),
                img, W, bias, j, k, stride, n + 1)

\* Lines 65-70: the kernel loops for cell (j, k), from the n-th kernel element on
\* (n = kern_row * kernel + kern_col).
RECURSIVE ConvAccumulate(_, _, _, _, _, _, _, _)
ConvAccumulate(acc, img, W, bias, j, k, stride, n) ==
    LET kernel == Len(W)
        kern_row == n \div kernel
        kern_col == n % kernel
    IN IF n >= kernel * kernel THEN acc
       ELSE ConvAccumulate(
                acc + (img[j * stride + kern_row + 1][k * stride + kern_col + 1]
                        * W[kern_row + 1][kern_col + 1]) + bias,
                img, W, bias, j, k, stride, n + 1)

\* An index of line 67 is out of bounds for a cell the loops reach.
ConvForwardPanics(p, dims) ==
    \E j \in 0..(dims[2] - 1), k \in 0..(dims[1] - 1) :
        /\ ConvCellReached(j, k, p.kernel, p.data)
        /\ ConvCellPanics(j, k, p.kernel, p.stride, p.data)

\* weighted_inputs after the loops of lines 54-72.
ConvWeightedInputs(p, dims) ==
    [jj \in 1..dims[2] |->
        [kk \in 1..dims[1] |->
            IF ConvCellReached(jj - 1, kk - 1, p.kernel, p.data)
            THEN ConvAccumulate(0, p.data, p.weights, p.bias, jj - 1, kk - 1, p.stride, 0)
            ELSE 0]]

\* Lines 74-79.
ConvActivation(weighted) ==
    [jj \in 1..Len(weighted) |->
        [kk \in 1..Len(weighted[jj]) |-> ActivationFunction(activation, weighted[jj][kk])]]

ConvForward(x) ==
    /\ ~fault
    /\ layer_type = "Convolutional"
    /\ steps < MaxConvSteps
    /\ steps' = steps + 1
    /\ \E p1 \in {[conv EXCEPT !.inputs = x,
                               !.data = IF conv.padding_type = "Valid" THEN x ELSE @]} :
       \E p2 \in {[p1 EXCEPT !.data = AddPadding(p1)]} :
          IF GetOutputDimsPanics(p2) \/ ConvForwardPanics(p2, GetOutputDims(p2))
          THEN /\ fault' = TRUE
               /\ conv' = p2
               /\ call' = CallRecord("conv_forward", x, 0, <<>>, <<>>, <<>>)
          ELSE \E out \in {ConvActivation(ConvWeightedInputs(p2, GetOutputDims(p2)))} :
               /\ fault' = FALSE
               /\ conv' = [p2 EXCEPT !.outputs = out]
               /\ call' = CallRecord("conv_forward", x, 0, out, <<>>, <<>>)
    /\ UNCHANGED <<layer_type, activation, denseVars, fwd>>

(***************************************************************************)
(* Layer::add_padding_matrix (src/src/layer.rs, 175-189).                  *)
(***************************************************************************)
\* A faulty variant of AddPaddingMatrix: the padding is added before the matrix only, not
\* after it.
AddPaddingMatrixOneSide(padding, matrix) ==
    [i \in 1..(Len(matrix) + padding) |->
        [j \in 1..(Len(matrix[1]) + padding) |->
            IF i > padding /\ j > padding
            THEN matrix[i - padding][j - padding]
            ELSE 0]]

AddPaddingMatrix(padding, matrix) ==
    LET height == Len(matrix)
        width == Len(matrix[1])
        padded_height == height + 2 * padding
        padded_width == width + 2 * padding
    IN [i \in 1..padded_height |->
           [j \in 1..padded_width |->
               IF /\ i > padding
                  /\ i <= padding + height
                  /\ j > padding
                  /\ j <= padding + width
               THEN matrix[i - padding][j - padding]
               ELSE 0]]

(***************************************************************************)
(* Layer::conv_backward (src/src/layer.rs, 101-173).                       *)
(***************************************************************************)
\* Line 106 reads outputs[i][j] for every cell of errors.
ConvDeltaPanics(p, errors) ==
    \E i \in 1..Len(errors) :
        Len(errors[i]) > 0 /\ (i > Len(p.outputs) \/ Len(errors[i]) > Len(p.outputs[i]))

\* Lines 103-108.
ConvDelta(p, errors) ==
    [i \in 1..Len(errors) |->
        [j \in 1..Len(errors[i]) |->
            errors[i][j] * ActivationDerivative(activation, p.outputs[i][j])]]

\* An index of line 123 is out of bounds for a cell the loops of 113-120 reach.
ConvGradientPanics(p, delta) ==
    \E jj \in 1..Len(delta) : \E kk \in 1..Len(delta[jj]) :
        /\ ConvCellReached(jj - 1, kk - 1, p.kernel, p.data)
        /\ ConvCellPanics(jj - 1, kk - 1, p.kernel, p.stride, p.data)

\* The sum of f[m], m from n up to the length of the sequence f.
RECURSIVE SumSeq(_, _)
SumSeq(f, n) == IF n > Len(f) THEN 0 ELSE f[n] + SumSeq(f, n + 1)

\* Lines 110-127: weight_gradients, the per-cell gradient (computed and not used).
ConvWeightGradients(p, delta) ==
    [r \in 1..p.kernel |->
        [c \in 1..p.kernel |->
            SumSeq([jj \in 1..Len(delta) |->
                SumSeq([kk \in 1..Len(delta[jj]) |->
                    IF ConvCellReached(jj - 1, kk - 1, p.kernel, p.data)
                    THEN p.data[(jj - 1) * p.stride + r][(kk - 1) * p.stride + c]
                            * delta[jj][kk]
                    ELSE 0], 1)], 1)]]

\* The sum of all cells of delta_output, in the order of lines 131-135 and 141-145.
ConvDeltaSum(delta) ==
    SumSeq([k \in 1..Len(delta) |-> SumSeq(delta[k], 1)], 1)

\* A faulty variant of ConvUpdatedWeights: each cell is decremented by its own accumulated
\* weight gradient.
ConvUpdatedWeightsByGradient(p, delta, lr) ==
    [i \in 1..Len(p.weights) |->
        [j \in 1..Len(p.weights[i]) |->
            p.weights[i][j] - lr * ConvWeightGradients(p, delta)[i][j]]]

\* The kernel after the loops of lines 129-137.
ConvUpdatedWeights(p, delta, lr) ==
    [i \in 1..Len(p.weights) |->
        [j \in 1..Len(p.weights[i]) |-> p.weights[i][j] - lr * ConvDeltaSum(delta)]]

\* Lines 140-147.  The f64 quotient is modelled by the integer quotient.
ConvUpdatedBias(p, delta, lr) ==
    p.bias - lr * (ConvDeltaSum(delta) \div (Len(delta) * Len(delta[1])))

\* Lines 154 and 159: the loops reach placement (j, k) of the padded gradients.
NextDeltaReached(j, k, kernel, padded) ==
    j + kernel <= Rows(padded) /\ k + kernel <= Cols(padded)

\* An index of line 165 is out of bounds for a placement the loops reach.
ConvNextDeltaPanics(p, padded) ==
    \E j \in 0..(Rows(padded) - 1), k \in 0..(Cols(padded) - 1) :
        /\ NextDeltaReached(j, k, p.kernel, padded)
        /\ ConvCellPanics(j, k, p.kernel, p.stride, padded)

\* Lines 162-167: the sum for placement (j, k), W being the kernel read there.
ConvNextDeltaCell(W, padded, j, k, stride) ==
    SumSeq([r \in 1..Len(W) |->
        SumSeq([c \in 1..Len(W) |-> W[r][c] * padded[j * stride + r][k * stride + c]], 1)], 1)

\* next_delta after the loops of lines 149-171.
ConvNextDelta(W, padded, kernel, stride) ==
    [jj \in 1..(Rows(padded) - kernel + 1) |->
        [kk \in 1..(Cols(padded) - kernel + 1) |->
            ConvNextDeltaCell(W, padded, jj - 1, kk - 1, stride)]]

ConvBackward(errors, lr) ==
    /\ ~fault
    /\ layer_type = "Convolutional"
    /\ steps < MaxConvSteps
    /\ steps' = steps + 1
    /\ IF ConvDeltaPanics(conv, errors)
       THEN /\ fault' = TRUE
            /\ conv' = conv
            /\ call' = CallRecord("conv_backward", errors, lr, <<>>, <<>>, <<>>)
       ELSE \E delta \in {ConvDelta(conv, errors)} :
            IF ConvGradientPanics(conv, delta)
            THEN /\ fault' = TRUE
                 /\ conv' = conv
                 /\ call' = CallRecord("conv_backward", errors, lr, <<>>, <<>>, <<>>)
            ELSE \E W \in {ConvUpdatedWeights(conv, delta, lr)},
                    padded \in {AddPaddingMatrix(conv.kernel - 1, delta)} :
                    /\ conv' = [conv EXCEPT !.weights = W,
                                            !.bias = ConvUpdatedBias(conv, delta, lr)]
                    /\ IF ConvNextDeltaPanics(conv, padded)
                       THEN /\ fault' = TRUE
                            /\ call' = CallRecord("conv_backward", errors, lr,
                                                  <<>>, <<>>, <<>>)
                       ELSE /\ fault' = FALSE
                            /\ call' = CallRecord("conv_backward", errors, lr,
                                         ConvNextDelta(W, padded, conv.kernel, conv.stride),
                                         <<>>, <<>>)
    /\ UNCHANGED <<layer_type, activation, denseVars, fwd>>

(***************************************************************************)
(* A convolutional layer and the calls made on it.                         *)
(***************************************************************************)
\* The error grids conv_backward is called with: of the shape of the cached
\* outputs (1 x 1 while there are none).
ErrorGrids ==
    LET rows == IF Rows(conv.outputs) = 0 THEN 1 ELSE Rows(conv.outputs)
        cols == IF Cols(conv.outputs) = 0 THEN 1 ELSE Cols(conv.outputs)
    IN {PatGrid(rows, cols, s) : s \in {2, 4}}

InputGrids ==
    {PatGrid(rows, cols, s) : rows \in 1..MaxDim, cols \in 1..MaxDim, s \in {1, 3}}

\* Layer::conv(kernel, padding_type, stride, a) (src/src/layer.rs, 35-44).
InitConv ==
    \E kernel \in 1..MaxKernel, padding_type \in PaddingTypes, stride \in Strides,
       s \in InitSeeds, a \in ActivationKinds :
        /\ layer_type = "Convolutional"
        /\ activation = a
        /\ conv = ConvParamsNew(kernel, padding_type, stride, s)
        /\ nodes_in = 0
        /\ nodes_out = 0
        /\ weights = <<>>
        /\ biases = <<>>
        /\ inputs = <<>>
        /\ outputs = <<>>
        /\ call = CallRecord("conv", <<kernel, stride>>, 0, <<>>, <<>>, <<>>)
        /\ fwd = <<>>
        /\ fault = FALSE
        /\ steps = 0

NextConv ==
    \/ \E x \in InputGrids : ConvForward(x)
    \/ \E errors \in ErrorGrids, lr \in LearningRates : ConvBackward(errors, lr)

SpecConv == InitConv /\ [][NextConv]_vars

(***************************************************************************)
(* Properties of the convolutional layer.                                  *)
(***************************************************************************)
\* The number of valid placements of a kernel of side kernel along a dimension of
\* length len at the given stride.
Placements(len, kernel, stride) ==
    Cardinality({n \in 0..len : n * stride + kernel <= len})

KernelOffsets(kernel) == (0..(kernel - 1)) \X (0..(kernel - 1))

\* The grid e is not empty, is rectangular and has the shape of the grid m.
MatchesShape(e, m) ==
    /\ Len(e) > 0
    /\ Len(e) = Len(m)
    /\ \A i \in 1..Len(e) : Len(e[i]) > 0 /\ Len(e[i]) = Len(m[i]) /\ Len(e[i]) = Len(e[1])

\* C6: conv_forward, on a working buffer data for which get_output_dims() =
\* [width, height] is the number of valid kernel placements at the stride, returns a
\* grid of height rows and width columns whose cell (j, k) is
\* activation.function(b * K * K + sum_{r,c} data[j*S+r][k*S+c] * Wt[r][c]), and
\* caches that grid as outputs.
C6_ConvForward ==
    [][(/\ call'.op = "conv_forward"
        /\ ~fault'
        /\ GetOutputDims(conv') = <<Placements(Cols(conv'.data), conv.kernel, conv.stride),
                                    Placements(Rows(conv'.data), conv.kernel, conv.stride)>>) =>
        LET K == conv.kernel
            S == conv.stride
            data == conv'.data
            height == Placements(Rows(data), K, S)
            width == Placements(Cols(data), K, S)
            out == call'.ret
        IN /\ Len(out) = height
           /\ \A j \in 0..(height - 1) :
                /\ Len(out[j + 1]) = width
                /\ \A k \in 0..(width - 1) :
                     out[j + 1][k + 1] =
                        ActivationFunction(activation,
                            conv.bias * K * K
                            + SumFn([o \in KernelOffsets(K) |->
                                        data[j * S + o[1] + 1][k * S + o[2] + 1]
                                            * conv.weights[o[1] + 1][o[2] + 1]]))
           /\ conv'.outputs = out
           /\ conv'.weights = conv.weights
           /\ conv'.bias = conv.bias]_vars

\* C6 witness: conv_forward has returned a 2 x 2 grid whose cells differ, for a
\* 2 x 2 kernel with a non-zero bias.
C6_Witness ==
    /\ call.op = "conv_forward"
    /\ ~fault
    /\ conv.kernel = 2
    /\ conv.bias # 0
    /\ Rows(call.ret) = 2
    /\ Cols(call.ret) = 2
    /\ conv.outputs = call.ret
    /\ call.ret[1][1] # call.ret[2][2]
    /\ call.ret[1][1] # 0

\* C7 (as claimed): for every kernel size, every stride >= 1 and every non-empty
\* rectangular error grid of the cached output's shape, conv_backward's
\* upstream-gradient pass completes without reading outside the padded delta grid
\* and returns one cell per valid placement (j, k), j*S + K <= rows(P) and
\* k*S + K <= cols(P), each the sum of W'[r][c] * P[j*S+r][k*S+c].
C7_UpstreamPassInBounds ==
    (call.op = "conv_backward" /\ MatchesShape(call.arg, conv.outputs)) =>
        LET K == conv.kernel
            S == conv.stride
            P == AddPaddingMatrix(K - 1, ConvDelta(conv, call.arg))
            rows == Placements(Rows(P), K, S)
            cols == Placements(Cols(P), K, S)
        IN /\ ~fault
           /\ Len(call.ret) = rows
           /\ \A j \in 0..(rows - 1) :
                /\ Len(call.ret[j + 1]) = cols
                /\ \A k \in 0..(cols - 1) :
                     call.ret[j + 1][k + 1] =
                        SumFn([o \in KernelOffsets(K) |->
                                conv.weights[o[1] + 1][o[2] + 1]
                                    * P[j * S + o[1] + 1][k * S + o[2] + 1]])

\* The delta grid of a conv_backward call, from its errors and the cached outputs.
ClaimedDelta(errors) ==
    [i \in 1..Len(errors) |->
        [j \in 1..Len(errors[i]) |->
            errors[i][j] * ActivationDerivative(activation, conv.outputs[i][j])]]

\* C8: conv_backward(errors, lr) decrements every kernel weight cell by the same
\* amount lr * (sum of all cells of delta_output), whatever the working buffer holds.
C8_ConvWeightUpdate ==
    [][(call'.op = "conv_backward" /\ MatchesShape(call'.arg, conv.outputs)) =>
        LET delta == ClaimedDelta(call'.arg)
            total == SumFn([o \in {<<i, j>> : i \in 1..Len(delta), j \in 1..Len(delta[1])} |->
                                delta[o[1]][o[2]]])
        IN /\ Len(conv'.weights) = conv.kernel
           /\ \A r \in 1..conv.kernel :
                /\ Len(conv'.weights[r]) = conv.kernel
                /\ \A c \in 1..conv.kernel :
                     conv'.weights[r][c] = conv.weights[r][c] - call'.lr * total]_vars

\* C8 witness: conv_backward has run on a 2 x 2 kernel with a non-zero delta sum
\* over a working buffer whose cells differ.
C8_Witness ==
    /\ call.op = "conv_backward"
    /\ MatchesShape(call.arg, conv.outputs)
    /\ conv.kernel = 2
    /\ Rows(conv.outputs) = 2
    /\ conv.data[1][1] # conv.data[2][2]
    /\ SumFn([o \in {<<i, j>> : i \in 1..2, j \in 1..Len(call.arg[1])} |->
                ClaimedDelta(call.arg)[o[1]][o[2]]]) # 0

\* C10: at stride 1 with Valid padding, conv_forward on an H x W input followed by
\* conv_backward with an error grid of the output's shape returns a next_delta grid
\* of H rows and W columns, the shape of the cached raw input.
C10_NextDeltaShape ==
    [][(/\ conv.stride = 1
        /\ conv.padding_type = "Valid"
        /\ call.op = "conv_forward"
        /\ ~fault
        /\ call'.op = "conv_backward"
        /\ MatchesShape(call'.arg, conv.outputs)) =>
        /\ ~fault'
        /\ Len(call'.ret) = Len(conv.inputs)
        /\ \A j \in 1..Len(call'.ret) : Len(call'.ret[j]) = Len(conv.inputs[1])
        /\ conv'.inputs = conv.inputs]_vars

\* C10 witness: at stride 1 with Valid padding and a 2 x 2 kernel, conv_backward has
\* returned a 3 x 2 grid for a 3 x 2 input.
C10_Witness ==
    /\ call.op = "conv_backward"
    /\ ~fault
    /\ conv.stride = 1
    /\ conv.padding_type = "Valid"
    /\ conv.kernel = 2
    /\ Rows(conv.inputs) = 3
    /\ Cols(conv.inputs) = 2
    /\ Rows(call.ret) = 3
    /\ Cols(call.ret) = 2

====
